---- MODULE Spec2Model ----
(***************************************************************************)
(* Model of the Yahoo Finance API service (src/main.py): three data        *)
(* endpoints (fundamentals, historical, quote) and two health endpoints,   *)
(* served by one asyncio event loop.  Every handler is an `async def` that *)
(* calls the synchronous upstream client without awaiting, so a handler    *)
(* occupies the event loop from its start until its response is sent.      *)
(*                                                                         *)
(* Numbers: a float is modelled by its exact value in millionths (an       *)
(* integer).  The input values are dyadic rationals (k/64) or decimals     *)
(* that are not rounding ties, so the binary floating point result of      *)
(* x * 100, round(x, n) and int(x) is exactly the value computed here.     *)
(* Optional values are sequences of length <= 1: <<>> is None/null/NaN,    *)
(* <<v>> is the value v.                                                   *)
(***************************************************************************)
EXTENDS Integers, Sequences, FiniteSets, TLC

VARIABLES pc, req, loop, calls, responses, sending

vars == <<pc, req, loop, calls, responses, sending>>

(***************************************************************************)
(* Bounds of the model.                                                    *)
(***************************************************************************)
MaxRequests == 2
MaxRows == 2
MaxAbsent == 1

Requests == 1..MaxRequests
Tickers == {"MC.PA", "OR.PA"}

None == <<>>
NaN == <<>>
Some(v) == <<v>>

(***************************************************************************)
(* Program constants.                                                      *)
(***************************************************************************)
ErrorStatus == 500
OkStatus == 200
PercentFactor == 100
PercentDigits == 2
PriceDigits == 4

(***************************************************************************)
(* round(x, ndigits) on a value in millionths: the nearest multiple of     *)
(* 10^-ndigits, ties to the even multiple (Python's round on a float and   *)
(* numpy's rint(x * 10^n) / 10^n agree on exactly representable inputs).   *)
(***************************************************************************)
RoundHalfEven(v, step) ==
    LET r == v % step
        base == v - r
    IN  IF 2 * r < step THEN base
        ELSE IF 2 * r > step THEN base + step
        ELSE IF (base \div step) % 2 = 0 THEN base ELSE base + step

Round(v, ndigits) == RoundHalfEven(v, 10 ^ (6 - ndigits))

\* int(x): truncation toward zero; the result is a whole number.
IntOf(v) == IF v >= 0 THEN v \div (10 ^ 6) ELSE -((-v) \div (10 ^ 6))

(***************************************************************************)
(* The upstream client's results.                                          *)
(***************************************************************************)
InfoKeySeq ==
    << "longName", "trailingPE", "priceToBook", "priceToSalesTrailing12Months",
       "pegRatio", "returnOnEquity", "returnOnAssets", "profitMargins",
       "dividendYield", "dividendRate", "payoutRatio", "revenueGrowth",
       "earningsGrowth", "debtToEquity", "currentRatio", "beta",
       "recommendationKey" >>

InfoKeys == {InfoKeySeq[i] : i \in 1..Len(InfoKeySeq)}

KeyIndex(k) == CHOOSE i \in 1..Len(InfoKeySeq) : InfoKeySeq[i] = k

\* Upstream numbers, in millionths: 0, 0.153, 2/64, 1/64, 6/64, -3/64
NumVals == << 0, 153000, 31250, 15625, 93750, -46875 >>

\* Two assignments of these numbers to the keys.
Profiles == {1, 2}

InfoValue(p, k) ==
    IF k = "longName" THEN Some("LVMH")
    ELSE IF k = "recommendationKey" THEN Some("buy")
    ELSE Some(NumVals[((KeyIndex(k) + p) % Len(NumVals)) + 1])

AbsentSets ==
    {S \in ({{}} \cup {{a, b} : a \in InfoKeys, b \in InfoKeys}) :
        Cardinality(S) <= MaxAbsent}
    \cup {InfoKeys}

InfoOf(p, absent) == [k \in InfoKeys |-> IF k \in absent THEN None ELSE InfoValue(p, k)]

Infos == {InfoOf(p, absent) : p \in Profiles, absent \in AbsentSets}

\* A row of the price series: its index (a timestamp) and its columns.
RowVals ==
    { [index |-> [day |-> 10, time |-> 9],
       Open |-> 100015625, High |-> 100046875, Low |-> 99984375,
       Close |-> 100031250, Volume |-> Some(3000000)],
      [index |-> [day |-> 10, time |-> 15],
       Open |-> 100031250, High |-> 100093750, Low |-> 100015625,
       Close |-> 100093750, Volume |-> Some(2500000)],
      [index |-> [day |-> 11, time |-> 9],
       Open |-> 101500000, High |-> 101500000, Low |-> 99953125,
       Close |-> 100078125, Volume |-> Some(0)],
      [index |-> [day |-> 12, time |-> 9],
       Open |-> 100078125, High |-> 100078125, Low |-> 100078125,
       Close |-> 100078125, Volume |-> NaN] }

SeqsUpTo(S, n) == UNION {[1..m -> S] : m \in 0..n}

SeriesSet == SeqsUpTo(RowVals, MaxRows)

\* Messages of the exceptions the upstream call raises (str(e) may be empty).
RaiseMsgs == {"", "Too Many Requests. Rate limited. Try after a while."}

NoResult == [kind |-> "none"]
Raised(msg) == [kind |-> "raise", msg |-> msg]
InfoResult(info) == [kind |-> "info", info |-> info]
SeriesResult(rows) == [kind |-> "series", rows |-> rows]

\* datetime.now() at the time a handler runs.
Nows == {[day |-> 12, time |-> 10], [day |-> 13, time |-> 16]}

\* strftime('%Y-%m-%d') keeps the day and drops the time of day.
DateStr(ts) == ts.day

(***************************************************************************)
(* The handlers, as functions of the request and the upstream result.      *)
(***************************************************************************)
Ok(value) == [ok |-> TRUE, value |-> value]
Err(msg) == [ok |-> FALSE, error |-> msg]

\* Variant: info.get(key, 0).
InfoGet_ZeroDefault(info, k) == IF info[k] = None THEN Some(0) ELSE info[k]

\* info.get(key): None when the key is absent.
InfoGet(info, k) == info[k]

\* info.get('longName', '')
InfoGetName(info) == IF info["longName"] = None THEN Some("") ELSE info["longName"]

\* Variant: the value is rounded without the conversion to a percentage.
PercentOf_NoScale(v) == Round(v, PercentDigits)

\* round(value * 100, 2)
PercentOf(v) == Round(v * PercentFactor, PercentDigits)

\* The loop over percentage_fields: a field that is None stays None.
Percentage(opt) == IF opt = None THEN None ELSE Some(PercentOf(opt[1]))

Fundamentals(ticker, info, now) ==
    [ticker |-> ticker,
     name |-> InfoGetName(info)[1],
     date |-> DateStr(now),
     pe_ratio |-> InfoGet(info, "trailingPE"),
     pb_ratio |-> InfoGet(info, "priceToBook"),
     ps_ratio |-> InfoGet(info, "priceToSalesTrailing12Months"),
     peg_ratio |-> InfoGet(info, "pegRatio"),
     roe |-> Percentage(InfoGet(info, "returnOnEquity")),
     roa |-> Percentage(InfoGet(info, "returnOnAssets")),
     profit_margin |-> Percentage(InfoGet(info, "profitMargins")),
     dividend_yield |-> Percentage(InfoGet(info, "dividendYield")),
     dividend_per_share |-> InfoGet(info, "dividendRate"),
     payout_ratio |-> InfoGet(info, "payoutRatio"),
     revenue_growth |-> Percentage(InfoGet(info, "revenueGrowth")),
     earnings_growth |-> Percentage(InfoGet(info, "earningsGrowth")),
     debt_to_equity |-> InfoGet(info, "debtToEquity"),
     current_ratio |-> InfoGet(info, "currentRatio"),
     beta |-> InfoGet(info, "beta"),
     analyst_rating |-> InfoGet(info, "recommendationKey"),
     success |-> TRUE]

\* raise HTTPException(status_code=500, detail={...}): the framework answers
\* with that status and the JSON body {"detail": detail}.
HTTPException(status, detail) == [status |-> status, body |-> [detail |-> detail]]

ErrorDetail(ticker, msg) == [ticker |-> ticker, success |-> FALSE, error |-> msg]

\* A handler's return value is sent with status 200; an exception caught by
\* `except Exception as e` becomes the HTTPException with str(e).
Respond(ticker, outcome) ==
    IF outcome.ok THEN [status |-> OkStatus, body |-> outcome.value]
    ELSE HTTPException(ErrorStatus, ErrorDetail(ticker, outcome.error))

get_fundamentals_try(ticker, result, now) ==
    IF result.kind = "raise" THEN Err(result.msg)
    ELSE Ok(Fundamentals(ticker, result.info, now))

get_fundamentals(ticker, result, now) ==
    Respond(ticker, get_fundamentals_try(ticker, result, now))

\* int(row['Volume']) raises ValueError on NaN.
RowRaises(row) == row.Volume = NaN
NaNMsg == "cannot convert float NaN to integer"

\* Variant: the adjusted close is the unrounded Close column.
AdjustedClose_Unrounded(row) == row.Close

AdjustedClose(row) == Round(row.Close, PriceDigits)

RowPoint(row) ==
    [date |-> DateStr(row.index),
     open |-> Round(row.Open, PriceDigits),
     high |-> Round(row.High, PriceDigits),
     low |-> Round(row.Low, PriceDigits),
     close |-> Round(row.Close, PriceDigits),
     volume |-> IntOf(row.Volume[1]),
     adjusted_close |-> AdjustedClose(row)]

\* Variant: the points are emitted newest first.
HistoricalData_Reversed(rows) ==
    [i \in 1..Len(rows) |-> RowPoint(rows[Len(rows) + 1 - i])]

\* for index, row in hist.iterrows(): data.append({...})
HistoricalData(rows) == [i \in 1..Len(rows) |-> RowPoint(rows[i])]

get_historical_try(ticker, period, interval, result) ==
    IF result.kind = "raise" THEN Err(result.msg)
    ELSE IF \E i \in 1..Len(result.rows) : RowRaises(result.rows[i]) THEN Err(NaNMsg)
    ELSE Ok([ticker |-> ticker, period |-> period, interval |-> interval,
             data |-> HistoricalData(result.rows), success |-> TRUE])

get_historical(ticker, period, interval, result) ==
    Respond(ticker, get_historical_try(ticker, period, interval, result))

\* if hist.empty: raise ValueError(f"No data available for {ticker}")
EmptySeriesOutcome(ticker) == Err("No data available for " \o ticker)

\* Variant: hist.iloc[0].
LatestRow_First(rows) == rows[1]

\* hist.iloc[-1]
LatestRow(rows) == rows[Len(rows)]

Quote(ticker, row) ==
    [ticker |-> ticker] @@ RowPoint(row) @@ [success |-> TRUE]

get_quote_try(ticker, result) ==
    IF result.kind = "raise" THEN Err(result.msg)
    ELSE IF result.rows = <<>> THEN EmptySeriesOutcome(ticker)
    ELSE IF RowRaises(LatestRow(result.rows)) THEN Err(NaNMsg)
    ELSE Ok(Quote(ticker, LatestRow(result.rows)))

get_quote(ticker, result) == Respond(ticker, get_quote_try(ticker, result))

root(now) ==
    [status |-> OkStatus,
     body |-> [name |-> "Yahoo Finance API", version |-> "1.0.0",
               status |-> "running", timestamp |-> now]]

health(now) ==
    [status |-> OkStatus, body |-> [status |-> "healthy", timestamp |-> now]]

(***************************************************************************)
(* The server.                                                             *)
(***************************************************************************)
DataEndpoints == {"fundamentals", "historical", "quote"}
HealthEndpoints == {"root", "health"}

\* period and interval: the defaults, and the test script's query.
PeriodIntervals == {<<"1y", "1d">>, <<"5d", "1d">>}

NoReq == [endpoint |-> "none", ticker |-> "", period |-> "", interval |-> ""]
NoResponse == [rid |-> 0]

RequestsFor(e) ==
    IF e \in HealthEndpoints
    THEN {[endpoint |-> e, ticker |-> "", period |-> "", interval |-> ""]}
    ELSE IF e = "historical"
    THEN {[endpoint |-> e, ticker |-> t, period |-> pi[1], interval |-> pi[2]] :
            t \in Tickers, pi \in PeriodIntervals}
    ELSE {[endpoint |-> e, ticker |-> t, period |-> "", interval |-> ""] : t \in Tickers}

ResultsFor(e) ==
    {Raised(m) : m \in RaiseMsgs}
    \cup (IF e = "fundamentals" THEN {InfoResult(i) : i \in Infos}
          ELSE {SeriesResult(s) : s \in SeriesSet})

Handle(rq, result, now) ==
    CASE rq.endpoint = "fundamentals" -> get_fundamentals(rq.ticker, result, now)
      [] rq.endpoint = "historical" ->
            get_historical(rq.ticker, rq.period, rq.interval, result)
      [] rq.endpoint = "quote" -> get_quote(rq.ticker, result)
      [] rq.endpoint = "root" -> root(now)
      [] rq.endpoint = "health" -> health(now)

\* The event loop runs one handler at a time: a request's handler can start
\* only when no handler occupies the loop.
CanStart(r) == pc[r] = "arrived" /\ loop = 0

\* Variant: a request is coalesced with a pending request for the same ticker.
IssuesUpstream_Coalesced(r) ==
    ~\E q \in Requests \ {r} : pc[q] = "arrived" /\ req[q].ticker = req[r].ticker

\* Each data handler makes its own upstream call (no cache is consulted).
IssuesUpstream(r) == TRUE

Init ==
    /\ pc = [r \in Requests |-> "idle"]
    /\ req = [r \in Requests |-> NoReq]
    /\ loop = 0
    /\ calls = [r \in Requests |-> 0]
    /\ responses = [r \in Requests |-> 0]
    /\ sending = NoResponse

\* A client's request reaches the server.
Arrive(r) ==
    /\ pc[r] = "idle"
    /\ \E e \in DataEndpoints \cup HealthEndpoints : \E rq \in RequestsFor(e) :
          req' = [req EXCEPT ![r] = rq]
    /\ pc' = [pc EXCEPT ![r] = "arrived"]
    /\ UNCHANGED <<loop, calls, responses, sending>>

\* / and /health: the handler runs to its return without any upstream call.
ServeHealth(r) ==
    /\ CanStart(r)
    /\ req[r].endpoint \in HealthEndpoints
    /\ \E now \in Nows :
          sending' = [rid |-> r, req |-> req[r], result |-> NoResult, now |-> now,
                      resp |-> Handle(req[r], NoResult, now)]
    /\ loop' = r
    /\ pc' = [pc EXCEPT ![r] = "responding"]
    /\ responses' = [responses EXCEPT ![r] = @ + 1]
    /\ UNCHANGED <<req, calls>>

\* A data handler starts and makes its blocking upstream call: it holds the
\* event loop until the call returns.
StartHandler(r) ==
    /\ CanStart(r)
    /\ req[r].endpoint \in DataEndpoints
    /\ loop' = r
    /\ pc' = [pc EXCEPT ![r] = "upstream"]
    /\ calls' = [calls EXCEPT ![r] = IF IssuesUpstream(r) THEN @ + 1 ELSE @]
    /\ UNCHANGED <<req, responses, sending>>

\* The upstream call returns or raises; the handler transforms the result
\* into its response (or its HTTPException).
UpstreamReturn(r) ==
    /\ pc[r] = "upstream"
    /\ loop = r
    /\ \E result \in ResultsFor(req[r].endpoint) : \E now \in Nows :
          sending' = [rid |-> r, req |-> req[r], result |-> result, now |-> now,
                      resp |-> Handle(req[r], result, now)]
    /\ pc' = [pc EXCEPT ![r] = "responding"]
    /\ responses' = [responses EXCEPT ![r] = @ + 1]
    /\ UNCHANGED <<req, loop, calls>>

\* The response is written to the client; the handler's task ends, the event
\* loop is free again and nothing of the request is kept.
Send(r) ==
    /\ pc[r] = "responding"
    /\ loop = r
    /\ sending' = NoResponse
    /\ loop' = 0
    /\ pc' = [pc EXCEPT ![r] = "idle"]
    /\ req' = [req EXCEPT ![r] = NoReq]
    /\ calls' = [calls EXCEPT ![r] = 0]
    /\ responses' = [responses EXCEPT ![r] = 0]

Next ==
    \E r \in Requests :
        \/ Arrive(r)
        \/ ServeHealth(r)
        \/ StartHandler(r)
        \/ UpstreamReturn(r)
        \/ Send(r)

Spec == Init /\ [][Next]_vars

(***************************************************************************)
(* Vocabulary of the properties.                                           *)
(***************************************************************************)
Abs(x) == IF x < 0 THEN -x ELSE x

\* A response is on its way to the client.
Responding == sending.rid # 0
DataResponse == Responding /\ sending.req.endpoint \in DataEndpoints
ResponseOf(e) == Responding /\ sending.req.endpoint = e

\* What the handler's try block did with the upstream result.
Outcome ==
    CASE sending.req.endpoint = "fundamentals" ->
            get_fundamentals_try(sending.req.ticker, sending.result, sending.now)
      [] sending.req.endpoint = "historical" ->
            get_historical_try(sending.req.ticker, sending.req.period,
                               sending.req.interval, sending.result)
      [] sending.req.endpoint = "quote" ->
            get_quote_try(sending.req.ticker, sending.result)

\* The error record a response carries: the body itself, or the body's detail.
Envelope(body) == IF "detail" \in DOMAIN body THEN body.detail ELSE body

DataFields ==
    {"name", "date", "pe_ratio", "pb_ratio", "ps_ratio", "peg_ratio", "roe", "roa",
     "profit_margin", "dividend_yield", "dividend_per_share", "payout_ratio",
     "revenue_growth", "earnings_growth", "debt_to_equity", "current_ratio", "beta",
     "analyst_rating", "period", "interval", "data", "open", "high", "low", "close",
     "volume", "adjusted_close"}

\* out is v rounded to a multiple of step.
RoundedTo(out, v, step) == out % step = 0 /\ 2 * Abs(out - v) <= step

\* n is the whole number int() makes of v (in millionths).
TruncatedTo(n, v) ==
    /\ Abs(n * 10 ^ 6) <= Abs(v)
    /\ Abs(v - n * 10 ^ 6) < 10 ^ 6

\* point p is the output for upstream row `row`.
DerivedFrom(p, row) ==
    /\ p.date = row.index.day
    /\ RoundedTo(p.open, row.Open, 100)
    /\ RoundedTo(p.high, row.High, 100)
    /\ RoundedTo(p.low, row.Low, 100)
    /\ RoundedTo(p.close, row.Close, 100)
    /\ row.Volume # NaN
    /\ TruncatedTo(p.volume, row.Volume[1])

Before(a, b) == a.day < b.day \/ (a.day = b.day /\ a.time <= b.time)
Ascending(rows) == \A i \in 1..(Len(rows) - 1) : Before(rows[i].index, rows[i + 1].index)
NumericRows(rows) == \A i \in 1..Len(rows) : rows[i].Volume # NaN

PercentageMap ==
    {<<"returnOnEquity", "roe">>, <<"returnOnAssets", "roa">>,
     <<"profitMargins", "profit_margin">>, <<"dividendYield", "dividend_yield">>,
     <<"revenueGrowth", "revenue_growth">>, <<"earningsGrowth", "earnings_growth">>}

PassThroughMap ==
    {<<"trailingPE", "pe_ratio">>, <<"priceToBook", "pb_ratio">>,
     <<"priceToSalesTrailing12Months", "ps_ratio">>, <<"pegRatio", "peg_ratio">>,
     <<"dividendRate", "dividend_per_share">>, <<"payoutRatio", "payout_ratio">>,
     <<"debtToEquity", "debt_to_equity">>, <<"currentRatio", "current_ratio">>,
     <<"beta", "beta">>}

OptionalMap ==
    PercentageMap \cup PassThroughMap \cup {<<"recommendationKey", "analyst_rating">>}

\* info with every absent key given a value.
Complete(info) == [k \in InfoKeys |-> IF info[k] = None THEN InfoValue(1, k) ELSE info[k]]

(***************************************************************************)
(* C1: whenever a data handler's try block raises, the HTTP response has    *)
(* status 500 and its JSON body is the record {ticker, success: false,     *)
(* error: the exception's message}.                                        *)
(***************************************************************************)
C1_ErrorBodyIsEnvelope ==
    (DataResponse /\ ~Outcome.ok) =>
        /\ sending.resp.status = 500
        /\ sending.resp.body =
             [ticker |-> sending.req.ticker, success |-> FALSE, error |-> Outcome.error]

(***************************************************************************)
(* C2: every response of a data endpoint is either a success (status 200,  *)
(* success = true, no error field) or an error (success = false, a         *)
(* non-empty error string, no data field), never a mix.                    *)
(***************************************************************************)
C2_SuccessErrorExclusive ==
    DataResponse =>
        LET body == sending.resp.body
            env == Envelope(body)
        IN  \/ /\ sending.resp.status = 200
               /\ "success" \in DOMAIN body /\ body.success = TRUE
               /\ "error" \notin DOMAIN body /\ "detail" \notin DOMAIN body
            \/ /\ sending.resp.status = 500
               /\ "success" \in DOMAIN env /\ env.success = FALSE
               /\ "error" \in DOMAIN env /\ env.error # ""
               /\ DOMAIN env \cap DataFields = {}

(***************************************************************************)
(* C3: GetQuote on an empty upstream series answers with HTTP 500 and the  *)
(* error envelope, a body with success = false (and the requested ticker   *)
(* and an error message); it is never a success payload.                   *)
(***************************************************************************)
C3_QuoteEmptySeriesIsEnvelope ==
    (ResponseOf("quote") /\ sending.result.kind = "series" /\ sending.result.rows = <<>>) =>
        LET body == sending.resp.body
        IN  /\ sending.resp.status = 500
            /\ DOMAIN body \cap DataFields = {}
            /\ "success" \in DOMAIN body /\ body.success = FALSE
            /\ "ticker" \in DOMAIN body /\ body.ticker = sending.req.ticker
            /\ "error" \in DOMAIN body

(***************************************************************************)
(* C4: the points of a historical response are the upstream rows, one for  *)
(* one and in the upstream order.                                          *)
(***************************************************************************)
HistoricalSuccess(rows) ==
    LET body == sending.resp.body
    IN  /\ sending.resp.status = 200
        /\ "data" \in DOMAIN body
        /\ body.success = TRUE
        /\ Len(body.data) = Len(rows)
        /\ \A i \in 1..Len(rows) : DerivedFrom(body.data[i], rows[i])
        /\ Ascending(rows) =>
              \A i \in 1..(Len(rows) - 1) : body.data[i].date <= body.data[i + 1].date

\* C4 as claimed: every upstream series of n >= 0 rows gives HTTP 200,
\* success = true and exactly n points, the i-th from the i-th row.
C4_HistoricalAlwaysSucceeds ==
    (ResponseOf("historical") /\ sending.result.kind = "series") =>
        HistoricalSuccess(sending.result.rows)

\* C4 as amended: an upstream series of n >= 0 rows whose Volume values are
\* all numbers gives HTTP 200, success = true and exactly n points, the i-th
\* from the i-th row (n = 0 gives data = []); a series holding a row whose
\* Volume is NaN gives the HTTP 500 error response instead.
C4_HistoricalRowsPreserved ==
    (ResponseOf("historical") /\ sending.result.kind = "series") =>
        IF NumericRows(sending.result.rows)
        THEN HistoricalSuccess(sending.result.rows)
        ELSE /\ sending.resp.status = 500
             /\ "data" \notin DOMAIN sending.resp.body

C4_Witness ==
    /\ ResponseOf("historical")
    /\ sending.result.kind = "series"
    /\ Len(sending.result.rows) = 2
    /\ sending.result.rows[1] # sending.result.rows[2]
    /\ sending.resp.status = 200
    /\ Len(sending.resp.body.data) = 2

(***************************************************************************)
(* C5: when the upstream info carries all six fractional fields, each of   *)
(* the six percentage outputs is the upstream value times 100 rounded to   *)
(* 2 decimals, and every other numeric output is its upstream value        *)
(* unchanged.                                                              *)
(***************************************************************************)
C5_PercentagesScaledAndRounded ==
    (/\ ResponseOf("fundamentals")
     /\ sending.result.kind = "info"
     /\ \A m \in PercentageMap : sending.result.info[m[1]] # None) =>
        LET body == sending.resp.body
            info == sending.result.info
        IN  /\ sending.resp.status = 200
            /\ \A m \in PercentageMap :
                  /\ Len(body[m[2]]) = 1
                  /\ RoundedTo(body[m[2]][1], 100 * info[m[1]][1], 10 ^ 4)
            /\ \A m \in PassThroughMap : body[m[2]] = info[m[1]]

C5_Witness ==
    /\ ResponseOf("fundamentals")
    /\ sending.result.kind = "info"
    /\ \A k \in InfoKeys : sending.result.info[k] # None
    /\ sending.result.info["returnOnEquity"] = <<153000>>
    /\ sending.resp.body.roe = <<15300000>>
    /\ sending.resp.body.roa # <<100 * sending.result.info["returnOnAssets"][1]>>

(***************************************************************************)
(* C6: each optional field absent upstream is null in the output (never    *)
(* zero, never an error) and each present field's output is what it would  *)
(* be if no field were absent.                                             *)
(***************************************************************************)
C6_AbsentFieldsAreNull ==
    (ResponseOf("fundamentals") /\ sending.result.kind = "info") =>
        LET body == sending.resp.body
            info == sending.result.info
            full == Fundamentals(sending.req.ticker, Complete(info), sending.now)
        IN  /\ sending.resp.status = 200
            /\ body.success = TRUE
            /\ \A m \in OptionalMap :
                  IF info[m[1]] = None THEN body[m[2]] = None
                  ELSE body[m[2]] # None /\ body[m[2]] = full[m[2]]

C6_Witness ==
    /\ ResponseOf("fundamentals")
    /\ sending.result.kind = "info"
    /\ sending.result.info["pegRatio"] = None
    /\ \A k \in InfoKeys \ {"pegRatio"} : sending.result.info[k] # None
    /\ sending.resp.body.peg_ratio = None
    /\ sending.resp.body.pe_ratio # None

(***************************************************************************)
(* C7: a quote is built from the last row of the upstream series.          *)
(***************************************************************************)
QuoteFromLastRow(rows) ==
    LET body == sending.resp.body
    IN  /\ sending.resp.status = 200
        /\ "close" \in DOMAIN body
        /\ body.success = TRUE
        /\ body.ticker = sending.req.ticker
        /\ DerivedFrom(body, rows[Len(rows)])
        /\ "data" \notin DOMAIN body

\* C7 as claimed: every upstream series with at least one row gives exactly
\* one point, built from the last row, dated by that row.
C7_QuoteAlwaysLastRow ==
    (/\ ResponseOf("quote")
     /\ sending.result.kind = "series"
     /\ sending.result.rows # <<>>) =>
        QuoteFromLastRow(sending.result.rows)

\* C7 as amended: an upstream series with at least one row whose last row
\* has a numeric Volume gives exactly one point, built from the last row and
\* dated by that row; when the last row's Volume is NaN the answer is the
\* HTTP 500 error response.
C7_QuoteIsLastRow ==
    (/\ ResponseOf("quote")
     /\ sending.result.kind = "series"
     /\ sending.result.rows # <<>>) =>
        IF sending.result.rows[Len(sending.result.rows)].Volume # NaN
        THEN QuoteFromLastRow(sending.result.rows)
        ELSE /\ sending.resp.status = 500
             /\ "close" \notin DOMAIN sending.resp.body

C7_Witness ==
    /\ ResponseOf("quote")
    /\ sending.result.kind = "series"
    /\ Len(sending.result.rows) = 2
    /\ sending.result.rows[1].index.day # sending.result.rows[2].index.day
    /\ sending.resp.status = 200
    /\ sending.resp.body.date = sending.result.rows[2].index.day
    /\ sending.resp.body.date # sending.now.day

(***************************************************************************)
(* C8: in every point of a historical response and in the point of a quote *)
(* response, adjusted_close equals close.                                  *)
(***************************************************************************)
C8_AdjustedCloseEqualsClose ==
    /\ (ResponseOf("historical") /\ sending.resp.status = 200) =>
          \A i \in 1..Len(sending.resp.body.data) :
             sending.resp.body.data[i].adjusted_close = sending.resp.body.data[i].close
    /\ (ResponseOf("quote") /\ sending.resp.status = 200) =>
          sending.resp.body.adjusted_close = sending.resp.body.close

C8_Witness ==
    /\ ResponseOf("historical")
    /\ sending.resp.status = 200
    /\ Len(sending.resp.body.data) >= 1
    /\ sending.resp.body.data[1].close # sending.result.rows[1].Close
    /\ sending.resp.body.data[1].adjusted_close = sending.resp.body.data[1].close

(***************************************************************************)
(* C9: while one handler's upstream call has not returned, any other       *)
(* request that has arrived can still be started.                          *)
(***************************************************************************)
C9_SlowUpstreamDoesNotStall ==
    \A r1 \in Requests, r2 \in Requests :
        (pc[r1] = "upstream" /\ pc[r2] = "arrived") => CanStart(r2)

(***************************************************************************)
(* C10: a data request issues exactly one upstream call and then exactly   *)
(* one response, also after a failure and also when another request for    *)
(* the same ticker is pending; / and /health issue none and answer 200.    *)
(***************************************************************************)
C10_OneUpstreamCallOneResponse ==
    \A r \in Requests :
        /\ calls[r] <= 1 /\ responses[r] <= 1
        /\ pc[r] \in {"idle", "arrived"} => (calls[r] = 0 /\ responses[r] = 0)
        /\ pc[r] = "upstream" => (calls[r] = 1 /\ responses[r] = 0)
        /\ (pc[r] = "responding" /\ req[r].endpoint \in DataEndpoints) =>
              (calls[r] = 1 /\ responses[r] = 1 /\ sending.rid = r)
        /\ (pc[r] = "responding" /\ req[r].endpoint \in HealthEndpoints) =>
              /\ calls[r] = 0 /\ responses[r] = 1
              /\ sending.rid = r /\ sending.resp.status = 200

C10_Witness ==
    \E r \in Requests, q \in Requests :
        /\ r # q
        /\ pc[r] = "responding" /\ sending.result.kind = "raise"
        /\ calls[r] = 1 /\ responses[r] = 1
        /\ pc[q] = "arrived" /\ req[q] = req[r]

====
